---------------------------- MODULE Spec2Model ----------------------------
(***************************************************************************)
(* A model of the skip-ball game loop of src/src/components/GameCanvas.tsx *)
(* and of the target generator of src/src/utils/gameUtils.ts.              *)
(*                                                                         *)
(* Numbers.  The program computes with JavaScript doubles.  The model      *)
(* computes on a fixed-point grid: positions, velocities, radii and the    *)
(* camera are integers in hundredths of a world unit (Scale), so x = 100   *)
(* is 10000.  A multiplication by a constant factor (drag 0.99, friction,  *)
(* restitution 0.6, ...) is an integer multiplication followed by a        *)
(* division that truncates toward zero (Scaled).  Math.sqrt is the integer *)
(* square root rounded down (ISqrt).  Math.sin is a rational approximation *)
(* whose period is 126 ticks of 0.05 rad (SinQ).  Player stats keep the    *)
(* grid of their shop increments: weight in tenths, bounciness in          *)
(* hundredths, aerodynamics in thousandths.                                *)
(*                                                                         *)
(* React state.  gameState and stats are React state: a handler reads the  *)
(* value captured when it was created and its setGameState / setStats      *)
(* calls take effect when the handler has returned, the last setGameState  *)
(* winning.  Each handler is one action; `mode` is read as the captured    *)
(* value throughout the action and written once at its end.                *)
(***************************************************************************)
EXTENDS Integers, Sequences, FiniteSets, TLC

VARIABLES
    mode,           \* gameState
    p,              \* playerRef.current
    ps,             \* playerStatsRef.current
    surface,        \* surfaceRef.current
    camera,         \* cameraRef.current
    stats,          \* stats
    input,          \* inputRef.current
    time,           \* timeRef.current, in ticks of 0.05
    stoppedFrames,  \* stoppedFramesRef.current
    rnd,            \* the stream of Math.random() results still to come
    ev              \* the handler that ran last and the locals of its run

vars == <<mode, p, ps, surface, camera, stats, input, time, stoppedFrames, rnd, ev>>

-----------------------------------------------------------------------------
(* Program constants *)

Scale == 100
CANVAS_WIDTH == 1200
CANVAS_HEIGHT == 600
SURFACE_Y_OFFSET == 150
POWER_SCALE == 15           \* 0.15, in hundredths
AIR_RESISTANCE == 99        \* 0.99, in hundredths
LOCAL_GRAVITY == 80         \* 0.8, in hundredths of a unit per tick
InitialTargets == 20
TargetCap == 50
RestFrames == 30
SinPeriod == 126            \* 2*pi / 0.05, rounded

-----------------------------------------------------------------------------
(* Bounds of the model *)

MaxTime == 60               \* ticks in one behaviour
MaxIdle == 2                \* of them, ticks outside FLYING and SINKING
MaxFlightTime == 600        \* ticks in one behaviour of an unattended flight
MaxSteps == 3               \* ticks in one behaviour from a contact set up in flight
FlightBound == 200          \* ticks by which every unattended flight has ended
MaxLaunches == 1            \* launches in one behaviour
MaxDives == 1               \* dives in one behaviour
MaxBuys == 1                \* purchases in one behaviour
MaxDebug == 1               \* uses of the debug buttons in one behaviour
MaxShopBuys == 11           \* purchases in one behaviour of a shopping spree

-----------------------------------------------------------------------------
(* Arithmetic on the grid *)

Abs(a) == IF a < 0 THEN -a ELSE a

Min(a, b) == IF a < b THEN a ELSE b

Max(a, b) == IF a > b THEN a ELSE b

\* a / b truncated toward zero, b > 0
TDiv(a, b) == IF a >= 0 THEN a \div b ELSE -((-a) \div b)

\* a * (num / den), truncated toward zero
Scaled(a, num, den) == TDiv(a * num, den)

\* Math.floor(a / b), b > 0
Floor(a, b) == a \div b

RECURSIVE SqrtSearch(_, _, _)
SqrtSearch(n, lo, hi) ==
    IF lo >= hi THEN lo
    ELSE LET mid == (lo + hi + 1) \div 2
         IN  IF mid * mid <= n THEN SqrtSearch(n, mid, hi)
                               ELSE SqrtSearch(n, lo, mid - 1)

\* Math.sqrt(n), rounded down
ISqrt(n) == SqrtSearch(n, 0, Min(n, 46340))

\* Math.sqrt(a*a + b*b) of two grid values
Hypot(a, b) == ISqrt(a * a + b * b)

\* the positive half wave of the sine, in thousandths, k in 0..63
SinHalf(k) == (16000 * k * (63 - k)) \div (5 * 63 * 63 - 4 * k * (63 - k))

\* Math.sin(a * 0.05), in thousandths
SinQ(a) ==
    LET k == a % SinPeriod
    IN  IF k < 63 THEN SinHalf(k) ELSE -SinHalf(k - 63)

surfaceY == (CANVAS_HEIGHT - SURFACE_Y_OFFSET) * Scale


-----------------------------------------------------------------------------
(* Math.random.  One draw holds the random numbers one generated target    *)
(* uses: u picks the type (hundredths of [0,1)), roll is randomRange(1,10) *)
(* in tenths, gap is randomRange(50,80) and mr is randomRange(30,80) on    *)
(* the grid.  A stream is a cyclic sequence of draws; rnd names the stream *)
(* and the number of draws already used.                                   *)

Draw(u, roll, gap, mr) == [u |-> u, roll |-> roll, gap |-> gap, mr |-> mr]

Streams ==
    << << Draw(0, 30, 5000, 3000), Draw(45, 99, 7900, 5000), Draw(55, 99, 6500, 7900),
          Draw(65, 10, 5000, 3000), Draw(20, 55, 7999, 4000) >>,
       << Draw(55, 99, 5000, 3000), Draw(10, 99, 5200, 3000), Draw(70, 99, 5000, 5000),
          Draw(30, 80, 5100, 3000) >> >>

NextDraw(r) == Streams[r.s][(r.i % Len(Streams[r.s])) + 1]

Advance(r) == [r EXCEPT !.i = (r.i + 1) % Len(Streams[r.s])]

-----------------------------------------------------------------------------
(* gameUtils.ts *)

\* the pool of types with >= for > in the three unlock tests
TypePoolEarly(difficulty) ==
    <<"NORMAL", "NORMAL", "NORMAL", "BOOST", "BLOCK", "COIN">>
    \o (IF difficulty >= 1200 THEN <<"MOVING">> ELSE <<>>)
    \o (IF difficulty >= 1500 THEN <<"MULTI_HIT">> ELSE <<>>)
    \o (IF difficulty >= 2000 THEN <<"GHOST">> ELSE <<>>)
    \o (IF difficulty < 1500 THEN <<"BOOST", "BOOST">> ELSE <<>>)

\* the pool of types for a difficulty given in thousandths
TypePool(difficulty) ==
    <<"NORMAL", "NORMAL", "NORMAL", "BOOST", "BLOCK", "COIN">>
    \o (IF difficulty > 1200 THEN <<"MOVING">> ELSE <<>>)
    \o (IF difficulty > 1500 THEN <<"MULTI_HIT">> ELSE <<>>)
    \o (IF difficulty > 2000 THEN <<"GHOST">> ELSE <<>>)
    \o (IF difficulty < 1500 THEN <<"BOOST", "BOOST">> ELSE <<>>)

\* types[Math.floor(Math.random() * types.length)]
PickType(difficulty, u) ==
    LET types == TypePool(difficulty)
    IN  types[((u * Len(types)) \div 100) + 1]

\* value after the switch on the type, from the base value
TypeValue(type, value) ==
    CASE type = "BOOST"     -> Floor(value * 5, 10)
      [] type = "BLOCK"     -> Floor(value * 15, 10)
      [] type = "COIN"      -> 1
      [] type = "MULTI_HIT" -> value * 2
      [] type = "MOVING"    -> Floor(value * 12, 10)
      [] type = "GHOST"     -> Floor(value * 15, 10)
      [] OTHER              -> value

\* weight after the switch on the type, in tenths
TypeWeight(type) ==
    CASE type = "BLOCK"     -> 20
      [] type = "COIN"      -> 1
      [] type = "MULTI_HIT" -> 15
      [] OTHER              -> 10

\* generateSurfaceNumber(x, difficultyMultiplier) with the draw d
generateSurfaceNumber(x, difficulty, d) ==
    LET type  == PickType(difficulty, d.u)
        base  == Floor(d.roll * difficulty, 10000)
        value == TypeValue(type, base)
    IN  [ x            |-> x,
          value        |-> Max(1, value),
          weight       |-> TypeWeight(type),
          radius       |-> (35 + (value % 10)) * Scale,
          type         |-> type,
          sunk         |-> FALSE,
          hitsRequired |-> IF type = "MULTI_HIT" THEN 3 ELSE 1,
          isMoving     |-> type = "MOVING",
          moveRange    |-> IF type = "MOVING" THEN d.mr ELSE 0 ]

-----------------------------------------------------------------------------
(* GameCanvas.tsx: construction and reset *)

RECURSIVE InitTargets(_, _)
\* the first n targets of initSurface, drawn from r
InitTargets(n, r) ==
    IF n = 0 THEN <<>>
    ELSE LET before == InitTargets(n - 1, r)
             rr     == [r EXCEPT !.i = (r.i + n - 1) % Len(Streams[r.s])]
         IN  Append(before,
                    generateSurfaceNumber((300 + (n - 1) * 80) * Scale, 1000, NextDraw(rr)))

\* initSurface(): the window it builds and the stream it leaves
initSurface(r) ==
    [ surface |-> InitTargets(InitialTargets, r),
      rnd     |-> [r EXCEPT !.i = (r.i + InitialTargets) % Len(Streams[r.s])] ]

StartY == (CANVAS_HEIGHT - SURFACE_Y_OFFSET - 30) * Scale

\* 20 + weight * 5
RadiusOf(weight) == 20 * Scale + weight * 5 * (Scale \div 10)

\* ev before any handler has run: op is the handler, from the gameState it
\* ran under, rest .. vy are locals of the last update() (vx, vy the
\* velocity its collision check saw), idle .. debug count the steps so far
NoEvent == [ op |-> "none", from |-> "MENU", rest |-> FALSE, gen |-> FALSE, shift |-> 0, hit |-> 0,
             kind |-> "none", force |-> 0, resistance |-> 0, vx |-> 0, vy |-> 0,
             idle |-> 0, launches |-> 0, dives |-> 0, buys |-> 0, debug |-> 0 ]

\* ev at the start of handler op
Begin(op) == [ev EXCEPT !.op = op, !.from = mode, !.rest = FALSE, !.gen = FALSE, !.shift = 0,
                        !.hit = 0, !.kind = "none", !.force = 0, !.resistance = 0,
                        !.vx = 0, !.vy = 0]

\* data.currency || 0 of the save loaded at startup
SavedCurrency == {600}

\* data.upgrades.maxPower of the save loaded at startup: none, or 40 purchases
SavedMaxPower == {25}

FlightMaxPower == {25, 105}

\* data.upgrades.weight of the save loaded at startup: none, or one purchase
SavedWeight == {10, 12}

\* the component after its first render and its effects, given the saves
LoadedSave(currencies, powers, weights) ==
    /\ mode = "MENU"
    /\ p = [x |-> 100 * Scale, y |-> StartY, vx |-> 0, vy |-> 0, vr |-> 0,
            radius |-> 25 * Scale]
    /\ \E power \in powers, weight \in weights :
           ps = [value |-> 10, weight |-> weight, bounciness |-> 70, aerodynamics |-> 990,
                 maxPower |-> power]
    /\ surface = <<>>
    /\ camera = [x |-> 0, y |-> 0, shake |-> 0]
    /\ \E saved \in currencies :
           stats = [distance |-> 0, skips |-> 0, score |-> 0, currency |-> saved, combo |-> 0]
    /\ input = [isDragging |-> FALSE, startX |-> 0, startY |-> 0,
                currentX |-> 0, currentY |-> 0]
    /\ time = 0
    /\ stoppedFrames = 0
    /\ rnd \in [s : DOMAIN Streams, i : {0}]
    /\ ev = NoEvent

\* the same with a save that holds no weight upgrade
Loaded(currencies, powers) == LoadedSave(currencies, powers, {10})

Init == Loaded(SavedCurrency, SavedMaxPower)

InitFlight == Loaded(SavedCurrency, FlightMaxPower)

\* resetRun()
ResetRun ==
    LET s == initSurface(rnd)
    IN  /\ p' = [x |-> 100 * Scale, y |-> StartY, vx |-> 0, vy |-> 0, vr |-> 0,
                 radius |-> RadiusOf(ps.weight)]
        /\ camera' = [x |-> 0, y |-> 0, shake |-> 0]
        /\ stats' = [stats EXCEPT !.distance = 0, !.skips = 0, !.score = 0, !.combo = 0]
        /\ surface' = s.surface
        /\ rnd' = s.rnd
        /\ mode' = "AIMING"
        /\ ev' = Begin("resetRun")
        /\ UNCHANGED <<ps, input, time, stoppedFrames>>

-----------------------------------------------------------------------------
(* GameCanvas.tsx: update(), the physics of one tick.  Each step maps the  *)
(* world w = [mode, p, surface, camera, stats, stoppedFrames, rnd, ev] to  *)
(* the world after it; w.mode is the last setGameState of the tick so far. *)

\* Math.sqrt(p.vx * p.vx + p.vy * p.vy)
Speed(q) == Hypot(q.vx, q.vy)

\* the integration without the cap of vy
IntegrateUncapped(w) ==
    LET q   == w.p
        vy1 == q.vy + (LOCAL_GRAVITY * (IF ps.weight = 0 THEN 10 ELSE ps.weight)) \div 10
        vx2 == Scaled(q.vx, AIR_RESISTANCE * ps.aerodynamics, 100 * 1000)
        vy2 == Scaled(vy1, AIR_RESISTANCE, 100)
        vr2 == Scaled(q.vr, 98, 100)
        q3  == [q EXCEPT !.vx = vx2, !.vy = vy2, !.vr = vr2]
    IN  IF Speed(q3) < 1 * Scale
        THEN IF w.stoppedFrames + 1 > RestFrames
             THEN [w EXCEPT !.mode = "AIMING", !.stoppedFrames = 0,
                            !.p = [q3 EXCEPT !.vx = 0, !.vy = 0, !.vr = 0],
                            !.ev.rest = TRUE]
             ELSE [w EXCEPT !.stoppedFrames = w.stoppedFrames + 1, !.p = q3]
        ELSE [w EXCEPT !.stoppedFrames = 0, !.p = q3]

\* gravity, drag, the cap of vy and the rest detection of a FLYING tick
Integrate(w) ==
    LET q   == w.p
        vy1 == q.vy + (LOCAL_GRAVITY * (IF ps.weight = 0 THEN 10 ELSE ps.weight)) \div 10
        vx2 == Scaled(q.vx, AIR_RESISTANCE * ps.aerodynamics, 100 * 1000)
        vy2 == Scaled(vy1, AIR_RESISTANCE, 100)
        vr2 == Scaled(q.vr, 98, 100)
        vy3 == IF vy2 < -25 * Scale THEN -25 * Scale ELSE vy2
        q3  == [q EXCEPT !.vx = vx2, !.vy = vy3, !.vr = vr2]
    IN  IF Speed(q3) < 1 * Scale
        THEN IF w.stoppedFrames + 1 > RestFrames
             THEN [w EXCEPT !.mode = "AIMING", !.stoppedFrames = 0,
                            !.p = [q3 EXCEPT !.vx = 0, !.vy = 0, !.vr = 0],
                            !.ev.rest = TRUE]
             ELSE [w EXCEPT !.stoppedFrames = w.stoppedFrames + 1, !.p = q3]
        ELSE [w EXCEPT !.stoppedFrames = 0, !.p = q3]

\* the movement with the horizontal step taken backwards
MoveBack(w) == [w EXCEPT !.p.x = w.p.x - w.p.vx, !.p.y = w.p.y + w.p.vy]

\* p.x += p.vx; p.y += p.vy
Move(w) == [w EXCEPT !.p.x = w.p.x + w.p.vx, !.p.y = w.p.y + w.p.vy]

\* 1 + p.x / 5000, in thousandths
Difficulty(x) == 1000 + Floor(x * 10, 5000)

\* one target more when the last one is not far enough ahead of the camera
Generate(w) ==
    LET rightmost == w.surface[Len(w.surface)]
        d         == NextDraw(w.rnd)
    IN  IF rightmost.x < w.camera.x + (CANVAS_WIDTH + 200) * Scale
        THEN [w EXCEPT !.surface = Append(w.surface,
                           generateSurfaceNumber(rightmost.x + d.gap, Difficulty(w.p.x), d)),
                       !.rnd = Advance(w.rnd),
                       !.ev.gen = TRUE]
        ELSE w

\* the cleanup dropping the sunk targets along with the oldest one
CleanupSunk(w) ==
    LET kept == SelectSeq(w.surface, LAMBDA num : ~num.sunk)
    IN  IF Len(w.surface) > TargetCap
        THEN [w EXCEPT !.surface = Tail(w.surface), !.ev.shift = 1]
        ELSE IF kept # <<>> THEN [w EXCEPT !.surface = kept]
        ELSE w

\* surfaceRef.current.shift() when the window holds more than the cap
Cleanup(w) ==
    IF Len(w.surface) > TargetCap
    THEN [w EXCEPT !.surface = Tail(w.surface), !.ev.shift = 1]
    ELSE w

\* the y of a target at time t, with its bobbing and its movement
TargetY(num, t) ==
    surfaceY + Scaled(SinQ(t + Floor(num.x, 5)), 3 * Scale, 1000)
    + (IF num.isMoving
       THEN Scaled(SinQ(2 * t + Floor(num.x, 5)),
                   IF num.moveRange = 0 THEN 50 * Scale ELSE num.moveRange, 1000)
       ELSE 0)

\* ghostOpacity < 0.3, i.e. 0.5 + sin * 0.4 < 0.3
GhostHidden(num, t) == num.type = "GHOST" /\ SinQ(3 * t + Floor(num.x, 5)) * 4 < -2000

\* dist < minDist, for the offsets dx, dy of the centres
Within(dx, dy, minDist) ==
    /\ Abs(dx) < minDist
    /\ Abs(dy) < minDist
    /\ Hypot(dx, dy) < minDist

\* the contact test without the sunk filter
ContactAny(num, q, t) ==
    /\ ~(num.x < q.x - 100 * Scale \/ num.x > q.x + 100 * Scale)
    /\ ~GhostHidden(num, t)
    /\ Within(q.x - num.x, q.y - TargetY(num, t), q.radius + num.radius)

\* the loop body reaches the contact of the player q with num
Contact(num, q, t) ==
    /\ ~num.sunk
    /\ ~(num.x < q.x - 100 * Scale \/ num.x > q.x + 100 * Scale)
    /\ ~GhostHidden(num, t)
    /\ Within(q.x - num.x, q.y - TargetY(num, t), q.radius + num.radius)

\* the index of the last target of the window in contact, 0 when none
LastHit(targets, q, t) ==
    LET I == {i \in DOMAIN targets : Contact(targets[i], q, t)}
    IN  IF I = {} THEN 0 ELSE CHOOSE i \in I : \A j \in I : i >= j

\* the index of the first target of the window in contact, 0 when none
FirstHit(targets, q, t) ==
    LET I == {i \in DOMAIN targets : Contact(targets[i], q, t)}
    IN  IF I = {} THEN 0 ELSE CHOOSE i \in I : \A j \in I : i <= j

\* impactVelocity * weight * value, in thousandths
ImpactForce(q) == Speed(q) * ps.weight * ps.value

\* num.value * num.weight, in thousandths
Resistance(num) == num.value * num.weight * Scale

\* the smash test with >= for >
IsSmashInclusive(impactForce, resistance) == impactForce >= resistance * 3

IsSmash(impactForce, resistance) == impactForce > resistance * 3

\* the skip test without the COIN exemption
SkipsByForce(impactForce, resistance, num) == impactForce > resistance

\* the skip test with >= for >
SkipsOnTie(impactForce, resistance, num) == impactForce >= resistance \/ num.type = "COIN"

Skips(impactForce, resistance, num) == impactForce > resistance \/ num.type = "COIN"

\* minDist - dist
Overlap(num, q, t) ==
    (q.radius + num.radius) - Hypot(q.x - num.x, q.y - TargetY(num, t))

\* p.vy = -Math.abs(p.vy) * bounciness; p.vy -= 2
Bounce(vy) == -Scaled(Abs(vy), ps.bounciness, 100) - 2 * Scale

\* Math.max(0.8, 1 - resistance / (impactForce * 5)), in thousandths
Friction(impactForce, resistance) ==
    IF impactForce = 0 THEN 800
    ELSE Max(800, 1000 - TDiv(resistance * 1000, impactForce * 5))

\* the stats update with the multiplier of the combo before the hit
SkipStatsOldCombo(st, num) ==
    [st EXCEPT !.skips = st.skips + 1,
               !.combo = st.combo + 1,
               !.score = Floor(st.score * 10 + num.value * 10 * (10 + st.combo), 10),
               !.currency = st.currency + (IF num.type = "COIN" THEN 10 ELSE 1)]

\* the stats update of a skip on num
SkipStats(st, num) ==
    LET newCombo == st.combo + 1
    IN  [st EXCEPT !.skips = st.skips + 1,
                   !.combo = newCombo,
                   !.score = Floor(st.score * 10 + num.value * 10 * (10 + newCombo), 10),
                   !.currency = st.currency + (IF num.type = "COIN" THEN 10 ELSE 1)]

\* the multi-hit test without the exemption of the smash
MultiHitAlways(num, isSmash) == num.type = "MULTI_HIT" /\ num.hitsRequired > 1

\* num.type === 'MULTI_HIT' && !isSmash && (num.hitsRequired || 0) > 1
MultiHit(num, isSmash) == num.type = "MULTI_HIT" /\ ~isSmash /\ num.hitsRequired > 1

\* the contact of the player with the target at index i of the window
Resolve(w, i, t) ==
    LET num         == w.surface[i]
        q           == w.p
        impactForce == ImpactForce(q)
        resistance  == Resistance(num)
        isSmash     == IsSmash(impactForce, resistance)
        overlap     == Overlap(num, q, t)
        e           == [w.ev EXCEPT !.hit = i, !.force = impactForce,
                                    !.resistance = resistance]
    IN  IF Skips(impactForce, resistance, num)
        THEN IF MultiHit(num, isSmash)
             THEN \* one hit less, bounce off, break
                  [w EXCEPT !.surface[i].hitsRequired = num.hitsRequired - 1,
                            !.p.vy = Bounce(q.vy),
                            !.p.y = q.y - overlap,
                            !.ev = [e EXCEPT !.kind = "multi"]]
             ELSE LET smash == isSmash /\ num.type # "COIN"
                      vy1   == IF smash THEN Scaled(q.vy, 9, 10) ELSE Bounce(q.vy)
                      vx1   == IF smash THEN Scaled(q.vx, 98, 100)
                               ELSE Scaled(q.vx, Friction(impactForce, resistance), 1000)
                      y1    == IF smash THEN q.y ELSE q.y - overlap
                      vr1   == IF smash THEN q.vr ELSE Scaled(vx1, 1, 10)
                      shake == IF smash THEN 40 * Scale
                               ELSE IF ~isSmash THEN Min(Floor(impactForce, 50), 20 * Scale)
                               ELSE w.camera.shake
                      st1   == IF smash THEN [w.stats EXCEPT !.score = w.stats.score + 500]
                               ELSE w.stats
                      boost == num.type = "BOOST"
                  IN  [w EXCEPT !.p = [q EXCEPT !.vx = IF boost THEN Scaled(vx1, 15, 10) ELSE vx1,
                                                !.vy = IF boost THEN vy1 - 5 * Scale ELSE vy1,
                                                !.y = y1,
                                                !.vr = vr1],
                                !.camera.shake = shake,
                                !.stats = SkipStats(st1, num),
                                !.surface[i].sunk = TRUE,
                                !.ev = [e EXCEPT !.kind = IF smash THEN "smash" ELSE "skip"]]
        ELSE \* hit the target but too weak
             [w EXCEPT !.mode = "SINKING",
                       !.p.vx = Scaled(q.vx, 1, 10),
                       !.p.vy = 2 * Scale,
                       !.camera.shake = 10 * Scale,
                       !.stats.combo = 0,
                       !.ev = [e EXCEPT !.kind = "sink"]]

\* the water-skip test with >= for >
WaterSkipsInclusive(q) == q.vx * q.vx + q.vy * q.vy >= (5 * Scale) * (5 * Scale) /\ q.vy > 0

\* speed > 5 && isMovingDown
WaterSkips(q) == q.vx * q.vx + q.vy * q.vy > (5 * Scale) * (5 * Scale) /\ q.vy > 0

\* the gentle landing test with <= for <
SoftLandingInclusive(q) == Abs(q.vy) <= 4 * Scale

\* Math.abs(p.vy) < 4
SoftLanding(q) == Abs(q.vy) < 4 * Scale

\* the contact with the water, a water-skip keeping the combo
WaterKeepsCombo(w) ==
    LET q == w.p
    IN  IF WaterSkips(q)
        THEN LET vx1 == Scaled(q.vx, 9, 10)
             IN  [w EXCEPT !.p = [q EXCEPT !.y = surfaceY - q.radius,
                                           !.vy = -Scaled(Abs(q.vy), 6, 10),
                                           !.vx = vx1,
                                           !.vr = Scaled(vx1, 2, 10)],
                           !.camera.shake = 5 * Scale,
                           !.ev.kind = "waterskip"]
        ELSE IF SoftLanding(q)
        THEN LET vx1 == Scaled(q.vx, 85, 100)
                 stop == Abs(vx1) < 50
             IN  [w EXCEPT !.p = [q EXCEPT !.y = surfaceY - q.radius,
                                           !.vy = 0,
                                           !.vx = IF stop THEN 0 ELSE vx1,
                                           !.vr = IF stop THEN 0 ELSE Scaled(q.vr, 8, 10)],
                           !.mode = IF stop THEN "AIMING" ELSE w.mode,
                           !.ev.kind = "float"]
        ELSE [w EXCEPT !.mode = "SINKING",
                       !.p.vx = Scaled(q.vx, 5, 10),
                       !.p.vy = 2 * Scale,
                       !.stats.combo = 0,
                       !.ev.kind = "watersink"]

\* the contact with the water, the float stopping at |vx| <= 0.5
WaterStopInclusive(w) ==
    LET q == w.p
    IN  IF WaterSkips(q)
        THEN LET vx1 == Scaled(q.vx, 9, 10)
             IN  [w EXCEPT !.p = [q EXCEPT !.y = surfaceY - q.radius,
                                           !.vy = -Scaled(Abs(q.vy), 6, 10),
                                           !.vx = vx1,
                                           !.vr = Scaled(vx1, 2, 10)],
                           !.camera.shake = 5 * Scale,
                           !.stats.combo = 0,
                           !.ev.kind = "waterskip"]
        ELSE IF SoftLanding(q)
        THEN LET vx1 == Scaled(q.vx, 85, 100)
                 stop == Abs(vx1) <= 50
             IN  [w EXCEPT !.p = [q EXCEPT !.y = surfaceY - q.radius,
                                           !.vy = 0,
                                           !.vx = IF stop THEN 0 ELSE vx1,
                                           !.vr = IF stop THEN 0 ELSE Scaled(q.vr, 8, 10)],
                           !.mode = IF stop THEN "AIMING" ELSE w.mode,
                           !.ev.kind = "float"]
        ELSE [w EXCEPT !.mode = "SINKING",
                       !.p.vx = Scaled(q.vx, 5, 10),
                       !.p.vy = 2 * Scale,
                       !.stats.combo = 0,
                       !.ev.kind = "watersink"]

\* the contact of the player with the water
Water(w) ==
    LET q == w.p
    IN  IF WaterSkips(q)
        THEN LET vx1 == Scaled(q.vx, 9, 10)
             IN  [w EXCEPT !.p = [q EXCEPT !.y = surfaceY - q.radius,
                                           !.vy = -Scaled(Abs(q.vy), 6, 10),
                                           !.vx = vx1,
                                           !.vr = Scaled(vx1, 2, 10)],
                           !.camera.shake = 5 * Scale,
                           !.stats.combo = 0,
                           !.ev.kind = "waterskip"]
        ELSE IF SoftLanding(q)
        THEN LET vx1 == Scaled(q.vx, 85, 100)
                 stop == Abs(vx1) < 50
             IN  [w EXCEPT !.p = [q EXCEPT !.y = surfaceY - q.radius,
                                           !.vy = 0,
                                           !.vx = IF stop THEN 0 ELSE vx1,
                                           !.vr = IF stop THEN 0 ELSE Scaled(q.vr, 8, 10)],
                           !.mode = IF stop THEN "AIMING" ELSE w.mode,
                           !.ev.kind = "float"]
        ELSE [w EXCEPT !.mode = "SINKING",
                       !.p.vx = Scaled(q.vx, 5, 10),
                       !.p.vy = 2 * Scale,
                       !.stats.combo = 0,
                       !.ev.kind = "watersink"]

\* the collision check of a FLYING tick: one target at most, else the water
Collide(w, t) ==
    LET i  == FirstHit(w.surface, w.p, t)
        w1 == [w EXCEPT !.ev.vx = w.p.vx, !.ev.vy = w.p.vy]
    IN  IF i # 0 THEN Resolve(w1, i, t)
        ELSE IF w.p.y + w.p.radius >= surfaceY THEN Water(w1)
        ELSE w1

\* the sinking logic with the exit handing the ball back to the player
SinkingResumes(w) ==
    LET vx1 == Scaled(w.p.vx, 9, 10)
    IN  [w EXCEPT !.p.vy = w.p.vy + 10,
                  !.p.vx = vx1,
                  !.mode = IF w.p.y > (CANVAS_HEIGHT + 100) * Scale \/ Abs(vx1) < 10
                           THEN "AIMING" ELSE w.mode]

\* the sinking logic without its exit
SinkingForever(w) ==
    [w EXCEPT !.p.vy = w.p.vy + 10, !.p.vx = Scaled(w.p.vx, 9, 10)]

\* the sinking logic without the decay of vx
SinkingAdrift(w) ==
    [w EXCEPT !.p.vy = w.p.vy + 10,
              !.mode = IF w.p.y > (CANVAS_HEIGHT + 100) * Scale \/ Abs(w.p.vx) < 10
                       THEN "GAME_OVER" ELSE w.mode]

\* the sinking logic of a SINKING tick
Sinking(w) ==
    LET vx1 == Scaled(w.p.vx, 9, 10)
    IN  [w EXCEPT !.p.vy = w.p.vy + 10,
                  !.p.vx = vx1,
                  !.mode = IF w.p.y > (CANVAS_HEIGHT + 100) * Scale \/ Abs(vx1) < 10
                           THEN "GAME_OVER" ELSE w.mode]

\* setStats(prev => ({ ...prev, distance: Math.floor(p.x / 10) }))
Distance(w) == [w EXCEPT !.stats.distance = Floor(w.p.x, 10 * Scale)]

\* camera follow without the clamp of the way back down
FollowUnclamped(w) ==
    LET targetCamX == w.p.x - 200 * Scale
        x1         == w.camera.x + Scaled(targetCamX - w.camera.x, 1, 10)
        screenY    == w.p.y - w.camera.y
        topMargin  == (CANVAS_HEIGHT * 3 * Scale) \div 10
        lowMargin  == (CANVAS_HEIGHT * 6 * Scale) \div 10
        y1         == IF screenY < topMargin
                      THEN w.camera.y + Scaled(screenY - topMargin, 2, 10)
                      ELSE IF screenY > lowMargin /\ w.camera.y < 0
                      THEN w.camera.y + Scaled(screenY - lowMargin, 1, 10)
                      ELSE w.camera.y
    IN  [w EXCEPT !.camera.x = IF x1 < 0 THEN 0 ELSE x1, !.camera.y = y1]

\* camera follow x and y
Follow(w) ==
    LET targetCamX == w.p.x - 200 * Scale
        x1         == w.camera.x + Scaled(targetCamX - w.camera.x, 1, 10)
        screenY    == w.p.y - w.camera.y
        topMargin  == (CANVAS_HEIGHT * 3 * Scale) \div 10
        lowMargin  == (CANVAS_HEIGHT * 6 * Scale) \div 10
        y1         == IF screenY < topMargin
                      THEN w.camera.y + Scaled(screenY - topMargin, 2, 10)
                      ELSE IF screenY > lowMargin /\ w.camera.y < 0
                      THEN Min(0, w.camera.y + Scaled(screenY - lowMargin, 1, 10))
                      ELSE w.camera.y
    IN  [w EXCEPT !.camera.x = IF x1 < 0 THEN 0 ELSE x1, !.camera.y = y1]

\* shake decay
ShakeDecay(w) ==
    IF w.camera.shake > 0
    THEN LET s1 == Scaled(w.camera.shake, 9, 10)
         IN  [w EXCEPT !.camera.shake = IF s1 < 50 THEN 0 ELSE s1]
    ELSE w

\* the physics block without its guard: the ball moves in every mode
PhysicsUnguarded(gs, w, t) ==
    IF gs = "FLYING"
    THEN Distance(Collide(Cleanup(Generate(Move(Integrate(w)))), t))
    ELSE IF gs = "SINKING"
    THEN Sinking(Cleanup(Generate(Move(w))))
    ELSE Move(w)

\* the physics block with the collision check run while SINKING as well
PhysicsSinkingCollides(gs, w, t) ==
    IF gs = "FLYING"
    THEN Distance(Collide(Cleanup(Generate(Move(Integrate(w)))), t))
    ELSE IF gs = "SINKING"
    THEN Sinking(Collide(Cleanup(Generate(Move(w))), t))
    ELSE w

\* the physics block of update() under the captured gameState gs
Physics(gs, w, t) ==
    IF gs = "FLYING"
    THEN Distance(Collide(Cleanup(Generate(Move(Integrate(w)))), t))
    ELSE IF gs = "SINKING"
    THEN Sinking(Cleanup(Generate(Move(w))))
    ELSE w

\* update(): one animation frame
update(gs, w, t) == ShakeDecay(Follow(Physics(gs, w, t)))

World ==
    [ mode |-> mode, p |-> p, surface |-> surface, camera |-> camera, stats |-> stats,
      stoppedFrames |-> stoppedFrames, rnd |-> rnd, ev |-> Begin("update") ]

Physical == mode \in {"FLYING", "SINKING"}

\* one animation frame, while fewer than limit have run
TickWithin(limit) ==
    /\ time < limit
    /\ Physical \/ ev.idle < MaxIdle
    /\ time' = time + 1
    /\ LET w == update(mode, [World EXCEPT !.ev.idle = IF Physical THEN @ ELSE @ + 1],
                       time + 1)
       IN  /\ mode' = w.mode
           /\ p' = w.p
           /\ surface' = w.surface
           /\ camera' = w.camera
           /\ stats' = w.stats
           /\ stoppedFrames' = w.stoppedFrames
           /\ rnd' = w.rnd
           /\ ev' = w.ev
    /\ UNCHANGED <<ps, input>>

Tick == TickWithin(MaxTime)

-----------------------------------------------------------------------------
(* GameCanvas.tsx: the pointer, the shop and the debug buttons *)

\* where the pointer goes down, and where it is moved to, in canvas pixels
DownPoints == { <<600, 300>> }

MovePoints == { <<100, 300>>, <<450, 450>>, <<580, 280>>, <<590, 282>>, <<595, 295>>, <<650, 300>> }

\* the dive without the test of the mode
DiveAnyMode ==
    /\ mode \in {"FLYING", "SINKING"}
    /\ ev.dives < MaxDives
    /\ p' = [p EXCEPT !.vy = p.vy + 15 * Scale]
    /\ ev' = [Begin("dive") EXCEPT !.dives = ev.dives + 1]
    /\ UNCHANGED <<mode, ps, surface, camera, stats, input, time, stoppedFrames, rnd>>

\* handleMouseDown while FLYING: the dive
Dive ==
    /\ mode = "FLYING"
    /\ ev.dives < MaxDives
    /\ p' = [p EXCEPT !.vy = p.vy + 15 * Scale]
    /\ ev' = [Begin("dive") EXCEPT !.dives = ev.dives + 1]
    /\ UNCHANGED <<mode, ps, surface, camera, stats, input, time, stoppedFrames, rnd>>

\* handleMouseDown while AIMING: the drag starts
DragStart ==
    /\ mode = "AIMING"
    /\ ev.launches < MaxLaunches
    /\ \E pt \in DownPoints :
          input' = [isDragging |-> TRUE, startX |-> pt[1], startY |-> pt[2],
                    currentX |-> pt[1], currentY |-> pt[2]]
    /\ ev' = Begin("mouseDown")
    /\ UNCHANGED <<mode, p, ps, surface, camera, stats, time, stoppedFrames, rnd>>

\* handleMouseDown in any other mode: the early return
DownIgnored ==
    /\ mode \notin {"FLYING", "AIMING"}
    /\ ev.op # "mouseDown"
    /\ ev' = Begin("mouseDown")
    /\ UNCHANGED <<mode, p, ps, surface, camera, stats, input, time, stoppedFrames, rnd>>

\* handleMouseDown
handleMouseDown == Dive \/ DragStart \/ DownIgnored

\* handleWindowMouseMove with the pointer at one of points
MouseMoveTo(points) ==
    /\ input.isDragging
    /\ \E pt \in points :
          /\ <<input.currentX, input.currentY>> # pt
          /\ input' = [input EXCEPT !.currentX = pt[1], !.currentY = pt[2]]
    /\ ev' = Begin("mouseMove")
    /\ UNCHANGED <<mode, p, ps, surface, camera, stats, time, stoppedFrames, rnd>>

\* handleWindowMouseMove
handleWindowMouseMove == MouseMoveTo(MovePoints)

\* the launch velocity without the clamp to maxPower
LaunchVelocityUnclamped(dx, dy) ==
    LET dist      == Hypot(dx, dy)
        isPerfect == dist * 100 >= 200 * 95
        vx1       == dx * POWER_SCALE
        vy1       == IF Abs(dy) * 10 < dx * 2 THEN -Abs(dx * 10) ELSE dy * POWER_SCALE
        vx2       == IF isPerfect THEN Scaled(vx1, 12, 10) ELSE vx1
        vy2       == IF isPerfect THEN Scaled(vy1, 12, 10) ELSE vy1
    IN  [vx |-> IF vx2 < 2 * Scale THEN 2 * Scale ELSE vx2, vy |-> vy2]

\* the launch velocity without the floor of vx
LaunchVelocityNoFloor(dx, dy) ==
    LET dist      == Hypot(dx, dy)
        maxDist   == 200
        isPerfect == dist * 100 >= maxDist * 95
        maxPower  == ps.maxPower * Scale
        vx0       == dx * POWER_SCALE
        vy0       == IF Abs(dy) * 10 < dx * 2 THEN -Abs(dx * 10) ELSE dy * POWER_SCALE
        speed     == Hypot(vx0, vy0)
        vx1       == IF speed > maxPower THEN Scaled(vx0, maxPower, speed) ELSE vx0
        vy1       == IF speed > maxPower THEN Scaled(vy0, maxPower, speed) ELSE vy0
        vx2       == IF isPerfect THEN Scaled(vx1, 12, 10) ELSE vx1
        vy2       == IF isPerfect THEN Scaled(vy1, 12, 10) ELSE vy1
    IN  [vx |-> vx2, vy |-> vy2]

\* the launch velocity of the drag (dx, dy), in canvas pixels
LaunchVelocity(dx, dy) ==
    LET dist      == Hypot(dx, dy)
        maxDist   == 200
        isPerfect == dist * 100 >= maxDist * 95
        maxPower  == ps.maxPower * Scale
        vx0       == dx * POWER_SCALE
        vy0       == IF Abs(dy) * 10 < dx * 2 THEN -Abs(dx * 10) ELSE dy * POWER_SCALE
        speed     == Hypot(vx0, vy0)
        vx1       == IF speed > maxPower THEN Scaled(vx0, maxPower, speed) ELSE vx0
        vy1       == IF speed > maxPower THEN Scaled(vy0, maxPower, speed) ELSE vy0
        vx2       == IF isPerfect THEN Scaled(vx1, 12, 10) ELSE vx1
        vy2       == IF isPerfect THEN Scaled(vy1, 12, 10) ELSE vy1
    IN  [vx |-> IF vx2 < 2 * Scale THEN 2 * Scale ELSE vx2, vy |-> vy2]

\* the drag is shorter than 10 pixels
TooShort(dx, dy) == Hypot(dx, dy) < 10

\* no wrong-direction test at all
WrongDirectionIgnored(dx, dy) == FALSE

\* the wrong-direction test with <= for <
WrongDirectionOrNone(dx, dy) == dx <= 0

\* the pull goes the wrong way
WrongDirection(dx, dy) == dx < 0

\* the release that leaves isDragging set
handleWindowMouseUpSticky ==
    /\ input.isDragging
    /\ input' = input
    /\ LET dx == input.startX - input.currentX
           dy == input.startY - input.currentY
       IN  IF TooShort(dx, dy)
           THEN /\ ev' = Begin("mouseUp")
                /\ UNCHANGED <<mode, p>>
           ELSE IF WrongDirection(dx, dy)
           THEN /\ mode' = "AIMING"
                /\ ev' = Begin("mouseUp")
                /\ UNCHANGED p
           ELSE LET v == LaunchVelocity(dx, dy)
                IN  /\ p' = [p EXCEPT !.vx = v.vx, !.vy = v.vy]
                    /\ mode' = "FLYING"
                    /\ ev' = [Begin("launch") EXCEPT !.launches = ev.launches + 1]
    /\ UNCHANGED <<ps, surface, camera, stats, time, stoppedFrames, rnd>>

\* handleWindowMouseUp
handleWindowMouseUp ==
    /\ input.isDragging
    /\ input' = [input EXCEPT !.isDragging = FALSE]
    /\ LET dx == input.startX - input.currentX
           dy == input.startY - input.currentY
       IN  IF TooShort(dx, dy)
           THEN /\ ev' = Begin("mouseUp")
                /\ UNCHANGED <<mode, p>>
           ELSE IF WrongDirection(dx, dy)
           THEN /\ mode' = "AIMING"
                /\ ev' = Begin("mouseUp")
                /\ UNCHANGED p
           ELSE LET v == LaunchVelocity(dx, dy)
                IN  /\ p' = [p EXCEPT !.vx = v.vx, !.vy = v.vy]
                    /\ mode' = "FLYING"
                    /\ ev' = [Begin("launch") EXCEPT !.launches = ev.launches + 1]
    /\ UNCHANGED <<ps, surface, camera, stats, time, stoppedFrames, rnd>>

\* the four shop buttons: stat, cost, increment on the grid of the stat
Upgrades ==
    { <<"weight", 100, 2>>, <<"aerodynamics", 500, 1>>,
      <<"bounciness", 250, 5>>, <<"maxPower", 125, 2>> }

\* the purchase without the test of the currency
BuyOnCredit(limit) ==
    /\ mode = "GAME_OVER"
    /\ ev.buys < limit
    /\ \E u \in Upgrades :
          /\ stats' = [stats EXCEPT !.currency = stats.currency - u[2]]
          /\ ps' = [ps EXCEPT ![u[1]] = ps[u[1]] + u[3]]
          /\ p' = IF u[1] = "weight"
                  THEN [p EXCEPT !.radius = RadiusOf(ps.weight + u[3])]
                  ELSE p
    /\ ev' = [Begin("buyUpgrade") EXCEPT !.buys = ev.buys + 1]
    /\ UNCHANGED <<mode, surface, camera, input, time, stoppedFrames, rnd>>

\* buyUpgrade(type, cost, increment), from the shop of the game-over screen,
\* while fewer than limit purchases have been made
Buy(limit) ==
    /\ mode = "GAME_OVER"
    /\ ev.buys < limit
    /\ \E u \in Upgrades :
          /\ stats.currency >= u[2]
          /\ stats' = [stats EXCEPT !.currency = stats.currency - u[2]]
          /\ ps' = [ps EXCEPT ![u[1]] = ps[u[1]] + u[3]]
          /\ p' = IF u[1] = "weight"
                  THEN [p EXCEPT !.radius = RadiusOf(ps.weight + u[3])]
                  ELSE p
    /\ ev' = [Begin("buyUpgrade") EXCEPT !.buys = ev.buys + 1]
    /\ UNCHANGED <<mode, surface, camera, input, time, stoppedFrames, rnd>>

buyUpgrade == Buy(MaxBuys)

\* buyUpgrade(type, cost, increment) when stats.currency < cost: nothing is done
BuyRefused ==
    /\ mode = "GAME_OVER"
    /\ ev.op # "buyRefused"
    /\ \E u \in Upgrades : stats.currency < u[2]
    /\ ev' = Begin("buyRefused")
    /\ UNCHANGED <<mode, p, ps, surface, camera, stats, input, time, stoppedFrames, rnd>>

\* the Reset Targets button
ResetTargets ==
    /\ ev.debug < MaxDebug
    /\ LET s == initSurface(rnd)
       IN  /\ surface' = s.surface
           /\ rnd' = s.rnd
    /\ ev' = [Begin("resetTargets") EXCEPT !.debug = ev.debug + 1]
    /\ UNCHANGED <<mode, p, ps, camera, stats, input, time, stoppedFrames>>

\* the Spawn Target button
SpawnTarget ==
    /\ ev.debug < MaxDebug
    /\ surface' = Append(surface,
                         generateSurfaceNumber(p.x + 300 * Scale, 1000, NextDraw(rnd)))
    /\ rnd' = Advance(rnd)
    /\ ev' = [Begin("spawnTarget") EXCEPT !.debug = ev.debug + 1]
    /\ UNCHANGED <<mode, p, ps, camera, stats, input, time, stoppedFrames>>

-----------------------------------------------------------------------------
(* The game: every handler, in any order *)

Next ==
    \/ Tick
    \/ ResetRun
    \/ Dive
    \/ DragStart
    \/ handleWindowMouseMove
    \/ handleWindowMouseUp
    \/ buyUpgrade

Spec == Init /\ [][Next]_vars

-----------------------------------------------------------------------------
(* One unattended flight: the run is started, one drag is released, and    *)
(* from then on only animation frames run.                                 *)

StartRun == mode = "MENU" /\ ResetRun

Aim == ev.launches = 0 /\ (DragStart \/ handleWindowMouseMove \/ handleWindowMouseUp)

FlightTick == TickWithin(MaxFlightTime)

NextFlight ==
    \/ StartRun
    \/ Aim
    \/ FlightTick

SpecFlight == InitFlight /\ [][NextFlight]_vars

-----------------------------------------------------------------------------
(* One flight with the two buttons of the debug overlay: the run is        *)
(* started from a save with maxPower upgraded, one drag is released, and   *)
(* Reset Targets or Spawn Target is clicked at any moment.                 *)

DebugMaxPower == {105}

InitDebug == Loaded(SavedCurrency, DebugMaxPower)

NextDebug ==
    \/ StartRun
    \/ Aim
    \/ Tick
    \/ ResetTargets
    \/ SpawnTarget

SpecDebug == InitDebug /\ [][NextDebug]_vars

-----------------------------------------------------------------------------
(* A shopping spree: the save holds 5500 coins, one run is played and the  *)
(* shop of its game-over screen is used.                                   *)

ShopCurrency == {5500}

InitShop == Loaded(ShopCurrency, SavedMaxPower)

Shop == Buy(MaxShopBuys)

NextShop ==
    \/ StartRun
    \/ Aim
    \/ Tick
    \/ Shop

SpecShop == InitShop /\ [][NextShop]_vars

-----------------------------------------------------------------------------
(* A returning player: the save may hold a weight upgrade, one run is      *)
(* played and the shop of its game-over screen is used once.               *)

InitSave == LoadedSave(SavedCurrency, SavedMaxPower, SavedWeight)

NextSave ==
    \/ StartRun
    \/ Aim
    \/ Tick
    \/ buyUpgrade

SpecSave == InitSave /\ [][NextSave]_vars

-----------------------------------------------------------------------------
(* A thin purse: the save holds 225 coins, one run is played and every     *)
(* button of the shop is clicked, whether the coins suffice or not.        *)

MaxPurseBuys == 2

PurseCurrency == {225}

InitPurse == Loaded(PurseCurrency, SavedMaxPower)

Purchase == Buy(MaxPurseBuys)

NextPurse ==
    \/ StartRun
    \/ Aim
    \/ Tick
    \/ Purchase
    \/ BuyRefused

SpecPurse == InitPurse /\ [][NextPurse]_vars

-----------------------------------------------------------------------------
(* The pointer: one run with a pointer-down at any moment, in any mode.    *)

NextPointer ==
    \/ StartRun
    \/ handleMouseDown
    \/ handleWindowMouseMove
    \/ handleWindowMouseUp
    \/ Tick

SpecPointer == Init /\ [][NextPointer]_vars

-----------------------------------------------------------------------------
(* Gestures: the run is started and drags of many shapes are released,     *)
(* each followed by a few animation frames.                                *)

\* where the pointer is moved to from (600, 300): the 45 degree pull-back of
\* 150, straight down and straight up by 100, a pull of 8 and of 11, the
\* launches of the game, two drags shorter than 10, two the wrong way, and a
\* full pull almost straight up
GesturePoints ==
    { <<450, 150>>, <<600, 200>>, <<600, 400>>, <<592, 240>>, <<589, 300>>,
      <<450, 450>>, <<100, 300>>, <<595, 295>>, <<604, 297>>, <<650, 300>>, <<610, 200>>,
      <<590, 500>> }

Gesture == MouseMoveTo(GesturePoints)

GestureTick == TickWithin(MaxSteps)

NextLaunch ==
    \/ StartRun
    \/ DragStart
    \/ Gesture
    \/ handleWindowMouseUp
    \/ GestureTick

SpecLaunch == Init /\ [][NextLaunch]_vars

-----------------------------------------------------------------------------
(* One contact: the ball is in flight one frame before it meets a target   *)
(* or the water, and a few animation frames run.  The row of targets is    *)
(* what generateSurfaceNumber returns for one draw, at the x where the     *)
(* stream generator would have put it for that difficulty.                 *)

\* difficulty in thousandths and draw of the targets of the row
Rows ==
    { [difficulty |-> 1120, draw |-> Draw(0, 30, 5000, 3000)],     \* NORMAL, value 3
      [difficulty |-> 1120, draw |-> Draw(40, 90, 5000, 3000)],    \* BOOST, value 5
      [difficulty |-> 1120, draw |-> Draw(55, 90, 5000, 3000)],    \* BLOCK, value 15
      [difficulty |-> 1120, draw |-> Draw(65, 50, 5000, 3000)],    \* COIN, value 1
      [difficulty |-> 1600, draw |-> Draw(90, 20, 5000, 3000)] }   \* MULTI_HIT, value 6

\* the x of the first target of a row: the generator runs 1400 ahead of the
\* camera, and the difficulty is 1 + p.x / 5000
RowStart(row) == ((row.difficulty - 1000) * 5 + 1400) * Scale

RowOf(row) ==
    [i \in 1..InitialTargets |->
        generateSurfaceNumber(RowStart(row) + (i - 1) * 80 * Scale, row.difficulty, row.draw)]

\* the hits the MULTI_HIT targets of the row have taken so far
HitsTaken == {0, 2}

\* the row after each of its MULTI_HIT targets has taken hits non-final hits
Worn(targets, hits) ==
    [i \in DOMAIN targets |->
        IF targets[i].type = "MULTI_HIT"
        THEN [targets[i] EXCEPT !.hitsRequired = targets[i].hitsRequired - hits]
        ELSE targets[i]]

\* vx, vy one frame before the contact
Approaches ==
    { <<0, -80>>, <<92, -80>>, <<93, -80>>, <<307, -80>>, <<308, -80>>, <<2000, 900>>,
      <<307, 325>>, <<307, 326>>, <<200, 330>>, <<200, 200>>, <<200, 2600>>,
      <<64, -80>>, <<65, -80>> }

\* above the third target of the row, at the water before the row, or above
\* the gap between the third and the fourth target
OverTarget(row) == [x |-> RowStart(row) + 2 * 80 * Scale, y |-> 400 * Scale]

OverWater(row) == [x |-> RowStart(row) - 150 * Scale, y |-> 424 * Scale]

OverGap(row) == [x |-> RowStart(row) + (2 * 80 + 40) * Scale, y |-> 400 * Scale]

Places(row) == {OverTarget(row), OverWater(row), OverGap(row)}

InitTick ==
    /\ mode = "FLYING"
    /\ ps = [value |-> 10, weight |-> 10, bounciness |-> 70, aerodynamics |-> 990,
             maxPower |-> 25]
    /\ \E row \in Rows, v \in Approaches, hits \in HitsTaken :
          \E at \in Places(row) :
              /\ surface = Worn(RowOf(row), hits)
              /\ p = [x |-> at.x, y |-> at.y, vx |-> v[1], vy |-> v[2], vr |-> 0,
                      radius |-> RadiusOf(10)]
              /\ camera = [x |-> at.x - 200 * Scale, y |-> 0, shake |-> 0]
              /\ stats = [distance |-> Floor(at.x, 10 * Scale), skips |-> 2, score |-> 60,
                          currency |-> 2, combo |-> 2]
    /\ input = [isDragging |-> FALSE, startX |-> 0, startY |-> 0,
                currentX |-> 0, currentY |-> 0]
    /\ time = 0
    /\ stoppedFrames = 0
    /\ rnd \in [s : DOMAIN Streams, i : {0}]
    /\ ev = [NoEvent EXCEPT !.op = "launch", !.from = "AIMING", !.launches = 1]

ContactTick == TickWithin(MaxSteps)

NextTick == ContactTick

SpecTick == InitTick /\ [][NextTick]_vars

-----------------------------------------------------------------------------
(* The generator: the ball is in flight at some x, behind it the window of *)
(* the run start, and generateSurfaceNumber is applied with the difficulty *)
(* of that x for every type draw and every base value drawn.               *)

\* the x of the ball in pixels: difficulty 1, and just below, at and just
\* above 1.2, 1.5 and 2.0, and 2.5
GenPositions == {0, 995, 1000, 1005, 2495, 2500, 2505, 4995, 5000, 5005, 7500}

\* Math.random() of the type pick, in hundredths
GenU == {5 * k : k \in 0..19}

\* randomRange(1, 10) of the base value, in tenths
GenRolls == {10, 19, 55, 99}

InitGen ==
    /\ mode = "FLYING"
    /\ ps = [value |-> 10, weight |-> 10, bounciness |-> 70, aerodynamics |-> 990,
             maxPower |-> 25]
    /\ rnd \in [s : DOMAIN Streams, i : {0}]
    /\ surface = initSurface(rnd).surface
    /\ \E x \in GenPositions :
          /\ p = [x |-> x * Scale, y |-> 300 * Scale, vx |-> 10 * Scale, vy |-> 0, vr |-> 0,
                  radius |-> RadiusOf(10)]
          /\ camera = [x |-> Max(0, (x - 200) * Scale), y |-> 0, shake |-> 0]
          /\ stats = [distance |-> Floor(x, 10), skips |-> 0, score |-> 0,
                      currency |-> 0, combo |-> 0]
    /\ input = [isDragging |-> FALSE, startX |-> 0, startY |-> 0,
                currentX |-> 0, currentY |-> 0]
    /\ time = 0
    /\ stoppedFrames = 0
    /\ ev = [NoEvent EXCEPT !.op = "launch", !.from = "AIMING", !.launches = 1]

\* surfaceRef.current.push(generateSurfaceNumber(rightmost.x + gap, difficulty))
\* for one type draw and one base value, after the window of the run start
GenStep ==
    /\ \E u \in GenU, roll \in GenRolls :
          LET start     == SubSeq(surface, 1, InitialTargets)
              rightmost == start[Len(start)]
              d         == Draw(u, roll, 50 * Scale, 30 * Scale)
          IN  surface' = Append(start,
                                generateSurfaceNumber(rightmost.x + d.gap, Difficulty(p.x), d))
    /\ ev' = [Begin("generate") EXCEPT !.gen = TRUE]
    /\ UNCHANGED <<mode, p, ps, camera, stats, input, time, stoppedFrames, rnd>>

NextGen == GenStep

SpecGen == InitGen /\ [][NextGen]_vars

-----------------------------------------------------------------------------
(* Properties *)

\* the mode changes the state machine lists
Legal ==
    { <<"MENU", "AIMING">>, <<"AIMING", "FLYING">>, <<"FLYING", "AIMING">>,
      <<"FLYING", "SINKING">>, <<"SINKING", "GAME_OVER">>, <<"GAME_OVER", "AIMING">> }

C2_Original == (ev.launches = 1 /\ ~Physical) => mode = "GAME_OVER"

\* C2 amended: after one accepted launch and no further input the ball is out
\* of FLYING and SINKING before FlightBound ticks have run, and the flight
\* ends in GAME_OVER (sunk) or in AIMING (floated to a stop on the water).
C2_FlightEnds ==
    ev.launches = 1 => (mode \in {"AIMING", "GAME_OVER"} \/ (Physical /\ time < FlightBound))

\* a flight has ended on the water with the mode back to AIMING
C2_Witness == ev.launches = 1 /\ ev.op = "update" /\ ev.from = "FLYING" /\ mode = "AIMING"

\* C4: a tick under SINKING either ends in GAME_OVER, or stays SINKING with
\* |vx| strictly smaller and y strictly larger; |vx| is a natural number of
\* hundredths, so the exit is met after finitely many ticks.
C4_SinkingEnds ==
    [][(mode = "SINKING" /\ ev'.op = "update") =>
         \/ mode' = "GAME_OVER"
         \/ mode' = "SINKING" /\ Abs(p'.vx) < Abs(p.vx) /\ p'.y > p.y]_vars

\* a SINKING tick has ended the run
C4_Witness == ev.op = "update" /\ ev.from = "SINKING" /\ mode = "GAME_OVER"

\* the window with every sunk target out of reach of the contact test
Vanished(targets) ==
    [i \in DOMAIN targets |->
        IF targets[i].sunk THEN [targets[i] EXCEPT !.radius = -1000 * Scale] ELSE targets[i]]

\* the ball overlaps a sunk target of the window at the time of the last tick
OverSunk ==
    \E i \in DOMAIN surface :
        /\ surface[i].sunk
        /\ Within(p.x - surface[i].x, p.y - TargetY(surface[i], time),
                  p.radius + surface[i].radius)

\* C5: a sunk target takes no part in a collision: every tick leaves the
\* player, the mode and the run stats as the same tick would with the sunk
\* targets out of reach, and no tick clears a sunk flag of a target it keeps.
C5_SunkTargetsInert ==
    [][ev'.op = "update" =>
         LET w == update(mode, [World EXCEPT !.surface = Vanished(surface)], time + 1)
         IN  /\ p' = w.p
             /\ mode' = w.mode
             /\ stats' = w.stats
             /\ \A i \in DOMAIN surface' :
                   (i + ev'.shift \in DOMAIN surface /\ surface[i + ev'.shift].sunk)
                       => surface'[i].sunk]_vars

\* a tick has run with the ball inside a sunk target, and hit no target
C5_Witness == ev.op = "update" /\ ev.from = "FLYING" /\ ev.hit = 0 /\ OverSunk

\* C6: a contact with a COIN resolves as a skip whatever impactForce and
\* resistance are: the mode does not become SINKING, the coin is marked sunk
\* and the ball leaves upwards.
C6_CoinAlwaysSkips ==
    [][(ev'.op = "update" /\ ev'.hit > 0 /\ surface'[ev'.hit].type = "COIN") =>
         /\ ev'.kind = "skip"
         /\ mode' # "SINKING"
         /\ surface'[ev'.hit].sunk
         /\ p'.vy < 0
         /\ stats'.skips = stats.skips + 1]_vars

\* a coin has been skipped with impactForce below its resistance
C6_Witness ==
    /\ ev.kind = "skip" /\ ev.hit > 0
    /\ surface[ev.hit].type = "COIN"
    /\ ev.force < ev.resistance
    /\ mode = "FLYING"

\* C7: a contact with a target that is no COIN takes the smash branch (no
\* positional correction, at least 500 more score) exactly when impactForce >
\* 3 x resistance; otherwise it is an ordinary skip (with the correction), a
\* multi-hit bounce or a sink.
C7_SmashThreshold ==
    [][(ev'.op = "update" /\ ev'.hit > 0 /\ surface'[ev'.hit].type # "COIN") =>
         LET moved == Move(Integrate(World)).p
         IN  IF ev'.force > 3 * ev'.resistance
             THEN /\ ev'.kind = "smash"
                  /\ p'.y = moved.y
                  /\ stats'.score >= stats.score + 500
             ELSE /\ ev'.kind \in {"skip", "multi", "sink"}
                  /\ ev'.kind \in {"skip", "multi"} => p'.y < moved.y
                  /\ stats'.score < stats.score + 500]_vars

\* a target has been smashed with impactForce just above 3 x resistance
C7_Witness ==
    /\ ev.kind = "smash"
    /\ ev.force > 3 * ev.resistance
    /\ ev.force <= 3 * ev.resistance + 100
    /\ surface[ev.hit].sunk

\* C8: a contact with a target that is no COIN where impactForce equals
\* resistance resolves as a sink: the mode becomes SINKING, the combo 0 and
\* the target stays unsunk.
C8_TieSinks ==
    [][(ev'.op = "update" /\ ev'.hit > 0 /\ surface'[ev'.hit].type # "COIN"
           /\ ev'.force = ev'.resistance) =>
         /\ ev'.kind = "sink"
         /\ mode' = "SINKING"
         /\ stats'.combo = 0
         /\ ~surface'[ev'.hit].sunk
         /\ stats'.skips = stats.skips]_vars

\* a BLOCK has sunk the ball at impactForce equal to its resistance
C8_Witness ==
    /\ ev.kind = "sink" /\ ev.hit > 0
    /\ surface[ev.hit].type = "BLOCK"
    /\ ev.force = ev.resistance /\ ev.force > 0
    /\ mode = "SINKING"

\* the tick has met the water and no target
WaterContact == ev.op = "update" /\ ev.from = "FLYING" /\ ev.hit = 0 /\ ev.kind # "none"

\* the square of the speed the collision check of the last tick saw
ContactSpeed2 == ev.vx * ev.vx + ev.vy * ev.vy

Threshold2 == (5 * Scale) * (5 * Scale)

C10_Original ==
    [][(ev'.op = "update" /\ mode \in {"FLYING", "SINKING"}) =>
         surface'[Len(surface')].x >= camera.x + (CANVAS_WIDTH + 200) * Scale]_vars

\* C11 as stated: after the generation and cleanup of a FLYING or SINKING
\* tick the window holds at most 50 targets, also after clicks on Spawn
\* Target.
C11_Original ==
    [][(ev'.op = "update" /\ mode \in {"FLYING", "SINKING"}) =>
         Len(surface') <= TargetCap]_vars

\* C12: the vertical offset of the camera is never positive.
C12_CameraNeverBelow == camera.y <= 0

\* the camera is above the rest line and on its way back down behind the ball
C12_Witness ==
    /\ ev.op = "update" /\ camera.y < 0
    /\ p.y - camera.y > (CANVAS_HEIGHT * 6 * Scale) \div 10

\* the drag of the gesture being released, in canvas pixels
DragX == input.startX - input.currentX

DragY == input.startY - input.currentY

\* the step is a release of the drag
Release == input.isDragging /\ ~input'.isDragging

\* the square of the speed of the player
Speed2 == p.vx * p.vx + p.vy * p.vy

C14_InvalidGesture ==
    [][(Release /\ mode = "AIMING"
           /\ (DragX * DragX + DragY * DragY < 10 * 10 \/ DragX < 0)) =>
         (mode' = "AIMING" /\ p' = p)]_vars

\* a drag of 60 that pulls the wrong way has been released
C14_Witness ==
    /\ ev.op = "mouseUp" /\ ~input.isDragging /\ mode = "AIMING"
    /\ DragX < 0 /\ DragX * DragX + DragY * DragY >= 10 * 10

C16_SinkExactly ==
    [][(ev'.op = "update" /\ mode = "FLYING") =>
         LET q      == Move(Integrate(World)).p
             num    == surface'[ev'.hit]
             weak   == /\ ev'.hit > 0
                       /\ num.type # "COIN"
                       /\ Hypot(q.vx, q.vy) * ps.weight * ps.value
                              <= num.value * num.weight * Scale
             speed2 == q.vx * q.vx + q.vy * q.vy
             missed == /\ ev'.hit = 0
                       /\ q.y + q.radius >= surfaceY
                       /\ ~(speed2 > Threshold2 /\ q.vy > 0)
                       /\ ~(Abs(q.vy) < 4 * Scale)
         IN  mode' = "SINKING" <=> (weak \/ missed)]_vars

\* a tick has taken the ball from FLYING to SINKING at the water, and a
\* combo was running
C16_Witness ==
    /\ ev.op = "update" /\ ev.from = "FLYING" /\ mode = "SINKING"
    /\ ev.hit = 0 /\ p.vy = 2 * Scale /\ stats.skips > 0

\* C17 as stated: whenever a FLYING or SINKING tick runs its collision check
\* the window is not empty and holds a target with x greater than camera.x,
\* also after a click on Reset Targets in the middle of a run.
C17_Original ==
    [][(ev'.op = "update" /\ mode \in {"FLYING", "SINKING"}) =>
         /\ surface' # <<>>
         /\ \E i \in DOMAIN surface' : surface'[i].x > camera.x]_vars

\* C18 as stated: after any sequence of shop purchases bounciness is below 1
\* and aerodynamics at or below 1.
C18_Original == ps.bounciness < 100 /\ ps.aerodynamics <= 1000

\* the state a run starts from, but for the currency
FreshRun ==
    /\ mode = "AIMING"
    /\ p = [x |-> 100 * Scale, y |-> (CANVAS_HEIGHT - SURFACE_Y_OFFSET - 30) * Scale,
            vx |-> 0, vy |-> 0, vr |-> 0, radius |-> 20 * Scale + ps.weight * 50]
    /\ camera = [x |-> 0, y |-> 0, shake |-> 0]
    /\ Len(surface) = 20
    /\ \A i \in DOMAIN surface :
          /\ ~surface[i].sunk
          /\ surface[i].x = (300 + (i - 1) * 80) * Scale
    /\ stats.distance = 0 /\ stats.skips = 0 /\ stats.score = 0 /\ stats.combo = 0

\* C20 as stated: run reset, from any mode, ends with mode AIMING, the player
\* at its start position at rest, the camera at (0, 0) with shake 0, a fresh
\* window of unsunk targets, and distance, skips, score, currency and combo
\* all 0.
C20_Original == [][ev'.op = "resetRun" => (FreshRun' /\ stats'.currency = 0)]_vars

\* the x of the targets grow strictly along the list
Ascending(targets) ==
    \A i \in DOMAIN targets : i + 1 \in DOMAIN targets => targets[i].x < targets[i + 1].x

\* C21 as stated: in every reachable state the target list is ordered by
\* strictly ascending x, also after a Spawn Target click.
C21_Original == Ascending(surface)

\* C22 as stated: in every state whose mode is FLYING the vertical velocity
\* is at or above the floor of -25, also right after a bounce, a BOOST hit or
\* a dive.
C22_Original == mode = "FLYING" => p.vy >= -25 * Scale

\* C22 amended: the floor of -25 is applied in the integration step of every
\* FLYING tick: the velocity the ball is moved by and its collision check
\* sees is at or above -25, and a tick without contact leaves vy at or above
\* -25 and the ball at most 25 higher.  Between ticks, right after a launch,
\* vy can be below the floor.
C22_VyFloor ==
    [][(ev'.op = "update" /\ mode = "FLYING") =>
         /\ ev'.vy >= -25 * Scale
         /\ (ev'.hit = 0 /\ ev'.kind = "none") =>
                (p'.vy >= -25 * Scale /\ p'.y >= p.y - 25 * Scale)]_vars

\* a tick has run in which the cap has cut the velocity of a launch to -25
C22_Witness == ev.op = "update" /\ ev.from = "FLYING" /\ ev.vy = -25 * Scale /\ time = 1

\* C23 as stated: in every reachable state the radius of the player is
\* 20 + 5 x weight, also after the saved upgrades are loaded at startup and
\* after a weight upgrade is bought.
C23_Original == p.radius = 20 * Scale + 5 * ps.weight * (Scale \div 10)

\* C24 as stated: a FLYING tick adds exactly 1 to the skip count and to the
\* combo exactly when it contacts a target and the contact resolves as
\* neither a smash nor a sink; a hit on a MULTI_HIT target that is not its
\* last one adds 1, a smash adds nothing.
C24_Original ==
    [][(ev'.op = "update" /\ mode = "FLYING") =>
         ((stats'.skips = stats.skips + 1 /\ stats'.combo = stats.combo + 1)
             <=> (ev'.hit > 0 /\ ev'.kind \notin {"smash", "sink"}))]_vars

\* C25 as stated: a contact with a MULTI_HIT target whose remaining hits
\* are above 1, made with impactForce above its resistance, takes exactly one
\* hit off and leaves the target unsunk, also when impactForce is above the
\* smash threshold.
C25_Original ==
    [][(ev'.op = "update" /\ ev'.hit > 0 /\ surface'[ev'.hit].type = "MULTI_HIT") =>
         LET before == surface[ev'.hit + ev'.shift]
             after  == surface'[ev'.hit]
         IN  (before.hitsRequired > 1 /\ ev'.force > ev'.resistance) =>
                (after.hitsRequired = before.hitsRequired - 1 /\ ~after.sunk)]_vars

\* C25 amended: a contact with a MULTI_HIT target whose remaining hits are
\* above 1, made with impactForce above its resistance and at most 3 x its
\* resistance, takes exactly one hit off and leaves it unsunk; with
\* impactForce above 3 x resistance (a smash) the target is marked sunk at
\* once, its remaining hits untouched; with impactForce at or below the
\* resistance the ball sinks and the target is left as it was.  A contact
\* made when one hit remains marks it sunk when impactForce is above the
\* resistance.
C25_MultiHit ==
    [][(ev'.op = "update" /\ ev'.hit > 0 /\ surface'[ev'.hit].type = "MULTI_HIT") =>
         LET before == surface[ev'.hit + ev'.shift]
             after  == surface'[ev'.hit]
         IN  /\ ~before.sunk
             /\ IF ev'.force > 3 * ev'.resistance
                THEN after.sunk /\ after.hitsRequired = before.hitsRequired
                ELSE IF ev'.force > ev'.resistance
                THEN IF before.hitsRequired > 1
                     THEN after.hitsRequired = before.hitsRequired - 1 /\ ~after.sunk
                     ELSE after.sunk /\ after.hitsRequired = before.hitsRequired
                ELSE after = before /\ mode' = "SINKING"]_vars

\* a smash has sunk a MULTI_HIT target that had all three hits left
C25_Witness ==
    /\ ev.op = "update" /\ ev.kind = "smash" /\ ev.hit > 0
    /\ surface[ev.hit].type = "MULTI_HIT"
    /\ surface[ev.hit].sunk /\ surface[ev.hit].hitsRequired = 3

\* the targets of the window the ball at q overlaps at time t while they are
\* unsunk and tangible
Touching(targets, q, t) ==
    { i \in DOMAIN targets :
        /\ ~targets[i].sunk
        /\ Abs(targets[i].x - q.x) <= 100 * Scale
        /\ ~GhostHidden(targets[i], t)
        /\ Hypot(q.x - targets[i].x, q.y - TargetY(targets[i], t))
              < q.radius + targets[i].radius }

\* C26: a FLYING tick changes sunk or the remaining hits of at most one
\* target, and that target, like the one that sinks the ball, is the first
\* unsunk, tangible, overlapping target in list order; a tick that contacts
\* a target applies no water branch, also when the lower edge of the ball is
\* at or below the water line.
C26_OneTargetPerTick ==
    [][(ev'.op = "update" /\ mode = "FLYING") =>
         LET sh      == ev'.shift
             kept    == {i \in DOMAIN surface' : i + sh \in DOMAIN surface}
             changed == {i \in kept :
                            \/ surface'[i].sunk # surface[i + sh].sunk
                            \/ surface'[i].hitsRequired # surface[i + sh].hitsRequired}
             q       == [p EXCEPT !.x = p.x + ev'.vx, !.y = p.y + ev'.vy]
             before  == [i \in kept |-> surface[i + sh]]
             over    == Touching(before, q, time')
         IN  /\ Cardinality(changed) <= 1
             /\ changed \subseteq {ev'.hit}
             /\ ev'.hit = (IF over = {} THEN 0 ELSE CHOOSE i \in over : \A j \in over : i <= j)
             /\ ev'.hit > 0 => ev'.kind \in {"skip", "smash", "multi", "sink"}
             /\ ev'.hit = 0 => changed = {}
             /\ ev'.kind = "sink" => mode' = "SINKING" /\ p'.vy = 2 * Scale]_vars

\* a smash has sunk one target while the ball, its lower edge below the water
\* line, was inside the next unsunk target as well
C26_Witness ==
    /\ ev.op = "update" /\ ev.from = "FLYING" /\ ev.kind = "smash" /\ ev.hit > 0
    /\ p.y + p.radius >= surfaceY
    /\ \E j \in DOMAIN surface : j > ev.hit /\ j \in Touching(surface, p, time)

\* C27: after a FLYING tick in which the ball sinks at a target, sinks in
\* the water or skips on the water the combo is 0; a soft landing leaves the
\* combo as it was and a skip on a target adds 1 to it.
C27_ComboReset ==
    [][(ev'.op = "update" /\ mode = "FLYING") =>
         /\ ev'.kind \in {"sink", "watersink", "waterskip"} => stats'.combo = 0
         /\ ev'.kind \in {"float", "multi", "none"} => stats'.combo = stats.combo
         /\ ev'.kind \in {"skip", "smash"} => stats'.combo = stats.combo + 1]_vars

\* the first tick of a flight with a combo of 2 has skipped on the water and
\* left the combo at 0
C27_Witness ==
    /\ ev.op = "update" /\ ev.from = "FLYING" /\ ev.kind = "waterskip"
    /\ time = 1 /\ stats.combo = 0 /\ stats.skips = 2

C29_Original ==
    [][(ev'.op = "update" /\ ev'.kind = "skip"
           /\ ev'.force > ev'.resistance /\ ev'.force <= 3 * ev'.resistance) =>
         LET num     == surface'[ev'.hit]
             dx      == p'.x - num.x
             dy      == p'.y - TargetY(num, time')
             minDist == p'.radius + num.radius
         IN  dx * dx + dy * dy >= minDist * minDist]_vars

\* C30: a FLYING tick that contacts no target, has the lower edge of the
\* ball at or below the water line, is no water-skip and has |vy| < 4 puts
\* the ball on the water line (y + radius = water line) with vy = 0 and vx
\* multiplied by 0.85; the mode becomes AIMING with vx = 0 exactly when the
\* resulting |vx| is below 0.5, and stays FLYING otherwise.
C30_SoftLanding ==
    [][(ev'.op = "update" /\ mode = "FLYING") =>
         LET wet    == ev'.hit = 0 /\ p.y + ev'.vy + p.radius >= surfaceY
             skips  == ev'.vx * ev'.vx + ev'.vy * ev'.vy > (5 * Scale) * (5 * Scale)
                       /\ ev'.vy > 0
             gentle == -4 * Scale < ev'.vy /\ ev'.vy < 4 * Scale
             vx1    == IF ev'.vx >= 0 THEN (ev'.vx * 85) \div 100
                       ELSE -((-ev'.vx * 85) \div 100)
         IN  /\ ev'.kind = "float" <=> (wet /\ ~skips /\ gentle)
             /\ ev'.kind = "float" =>
                   /\ p'.y + p'.radius = surfaceY
                   /\ p'.vy = 0
                   /\ IF -50 < vx1 /\ vx1 < 50
                      THEN mode' = "AIMING" /\ p'.vx = 0
                      ELSE mode' = "FLYING" /\ p'.vx = vx1]_vars

\* a soft landing has left the ball on the water line with vx = 0.50, still
\* FLYING
C30_Witness ==
    /\ ev.op = "update" /\ ev.from = "FLYING" /\ ev.kind = "float"
    /\ mode = "FLYING" /\ p.vx = 50 /\ p.vy = 0 /\ p.y + p.radius = surfaceY

\* C31: a tick taken while the mode is MENU, AIMING or GAME_OVER leaves the
\* player (position and velocity), the target window, the run stats and the
\* mode as they were; the camera and the shake may change.
C31_IdleTick ==
    [][(ev'.op = "update" /\ mode \in {"MENU", "AIMING", "GAME_OVER"}) =>
         /\ p' = p
         /\ surface' = surface
         /\ stats' = stats
         /\ mode' = mode]_vars

\* a tick has run in GAME_OVER, the sunk ball still carrying a velocity
C31_Witness ==
    /\ ev.op = "update" /\ ev.from = "GAME_OVER" /\ mode = "GAME_OVER"
    /\ p.vy > 0 /\ ev.idle > 0

\* C32: a tick taken while the mode is SINKING resolves no collision: no
\* target it keeps changes its sunk flag or its remaining hits, and skips,
\* score, combo, currency and distance are as they were.
C32_SinkingTick ==
    [][(ev'.op = "update" /\ mode = "SINKING") =>
         /\ \A i \in DOMAIN surface' :
               i + ev'.shift \in DOMAIN surface =>
                  /\ surface'[i].sunk = surface[i + ev'.shift].sunk
                  /\ surface'[i].hitsRequired = surface[i + ev'.shift].hitsRequired
         /\ stats' = stats
         /\ mode' \in {"SINKING", "GAME_OVER"}]_vars

\* a SINKING tick has run with the ball inside an unsunk target
C32_Witness ==
    /\ ev.op = "update" /\ ev.from = "SINKING"
    /\ \E i \in DOMAIN surface : i \in Touching(surface, p, time)

\* C33: a target struck and marked sunk in a tick is in the window at the
\* end of that tick, and a sunk target stays in the window with its flag
\* true over every step, until it is evicted from the front of the window
\* or the window is rebuilt by a reset.
C33_SunkPersists ==
    [][/\ (ev'.op = "update" /\ ev'.kind \in {"skip", "smash"}) =>
             /\ ev'.hit \in DOMAIN surface'
             /\ surface'[ev'.hit].sunk
       /\ ev'.op \notin {"resetRun", "resetTargets"} =>
             \A i \in DOMAIN surface :
                 surface[i].sunk =>
                    \/ ev'.shift = 1 /\ i = 1
                    \/ /\ i - ev'.shift \in DOMAIN surface'
                       /\ surface'[i - ev'.shift].x = surface[i].x
                       /\ surface'[i - ev'.shift].sunk]_vars

\* a tick that hit nothing has run with a target sunk earlier still in the
\* window, behind the ball
C33_Witness ==
    /\ ev.op = "update" /\ ev.from = "FLYING" /\ ev.hit = 0
    /\ \E i \in DOMAIN surface : surface[i].sunk /\ surface[i].x < p.x - 100 * Scale

\* C34: the generator returns a MOVING target only for a difficulty above
\* 1.2, a MULTI_HIT target only above 1.5 and a GHOST target only above 2.0;
\* every target of the window of the run start (difficulty 1) is NORMAL,
\* BOOST, BLOCK or COIN; every generated target has a value of at least 1
\* and is unsunk.
C34_TypeUnlocks ==
    \A i \in DOMAIN surface :
        LET num == surface[i]
        IN  /\ num.value >= 1
            /\ ~num.sunk
            /\ i <= InitialTargets => num.type \in {"NORMAL", "BOOST", "BLOCK", "COIN"}
            /\ i > InitialTargets =>
                  /\ num.type \in {"NORMAL", "BOOST", "BLOCK", "COIN", "MOVING",
                                   "MULTI_HIT", "GHOST"}
                  /\ num.type = "MOVING" => p.x > 1000 * Scale
                  /\ num.type = "MULTI_HIT" => p.x > 2500 * Scale
                  /\ num.type = "GHOST" => p.x > 5000 * Scale

\* a GHOST has been generated for the ball at x = 5005, difficulty 2.001
C34_Witness ==
    /\ ev.op = "generate" /\ Len(surface) = InitialTargets + 1
    /\ surface[Len(surface)].type = "GHOST"
    /\ p.x = 5005 * Scale

\* C35: a pointer-down while FLYING is a dive, which adds exactly 15 to vy
\* and leaves the mode, vx, the position and the drag state as they were; a
\* pointer-down in MENU, SINKING or GAME_OVER changes nothing; a drag begins
\* only in AIMING.
C35_PointerDown ==
    [][/\ ev'.op = "dive" =>
             /\ mode = "FLYING"
             /\ p' = [p EXCEPT !.vy = p.vy + 15 * Scale]
             /\ UNCHANGED <<mode, ps, surface, camera, stats, input, stoppedFrames, rnd>>
       /\ (ev'.op = "mouseDown" /\ mode \in {"MENU", "SINKING", "GAME_OVER"}) =>
             UNCHANGED <<mode, p, ps, surface, camera, stats, input, stoppedFrames, rnd>>
       /\ (input'.isDragging /\ ~input.isDragging) => mode = "AIMING"]_vars

\* a dive has just been made by a ball that was already falling
C35_Witness ==
    /\ ev.op = "dive" /\ ev.from = "FLYING" /\ mode = "FLYING"
    /\ p.vy > 15 * Scale

\* C36: whatever the order of pointer events, ticks and resets, a launch
\* (the velocity set from the drag and the mode set to FLYING) happens only
\* while the mode is AIMING, and a drag gives at most one launch: the launch
\* ends the drag, and a drag is in progress only after a pointer-down.
C36_LaunchInAiming ==
    [][/\ ev'.op = "launch" =>
             /\ mode = "AIMING" /\ mode' = "FLYING"
             /\ input.isDragging /\ ~input'.isDragging
       /\ (input'.isDragging /\ ~input.isDragging) => ev'.op = "mouseDown"
       /\ input.isDragging => mode = "AIMING"]_vars

\* a drag has been released into a launch, and the drag is over
C36_Witness ==
    /\ ev.op = "launch" /\ ev.from = "AIMING" /\ mode = "FLYING"
    /\ ~input.isDragging /\ p.vx >= 2 * Scale

\* C37: from the launch to the end of the run the horizontal velocity is
\* never negative while FLYING or SINKING, so within a run (any step but
\* resetRun) the x of the ball, the reported distance and the difficulty
\* 1 + x / 5000 never decrease.
C37_Forward ==
    [][/\ mode' \in {"FLYING", "SINKING"} => p'.vx >= 0
       /\ ev'.op # "resetRun" =>
             /\ p'.x >= p.x
             /\ stats'.distance >= stats.distance
             /\ Difficulty(p'.x) >= Difficulty(p.x)]_vars

\* the ball sinks, still drifting forward, after a flight of some distance
C37_Witness ==
    /\ ev.op = "update" /\ mode = "SINKING"
    /\ p.vx > 0 /\ stats.distance > 10

\* 1.2 x maxPower, the speed of a perfect launch at full power
BonusPower == 12 * ps.maxPower * (Scale \div 10)

\* C38 as stated: every accepted launch leaves the player with vx >= 2 and
\* with a speed of at most 1.2 x maxPower, for every drag, the steep ones
\* where the floor of vx is applied after the clamp and the bonus included.
C38_Original ==
    [][ev'.op = "launch" =>
          /\ p'.vx >= 2 * Scale
          /\ Speed2' <= BonusPower * BonusPower]_vars

\* C38 amended: every accepted launch leaves the player with vx >= 2; its
\* speed is at most 1.2 x maxPower when vx comes out above 2, and when vx
\* is 2, the value of the floor, the square of the speed is at most
\* (1.2 x maxPower)^2 + 2^2, so the speed can exceed 1.2 x maxPower.
C38_LaunchFloor ==
    [][ev'.op = "launch" =>
          /\ p'.vx >= 2 * Scale
          /\ p'.vx > 2 * Scale => Speed2' <= BonusPower * BonusPower
          /\ Speed2' <= BonusPower * BonusPower + (2 * Scale) * (2 * Scale)]_vars

\* the full pull almost straight up has been released: vx was raised to 2
\* and the speed is above 1.2 x maxPower
C38_Witness ==
    /\ ev.op = "launch" /\ ev.from = "AIMING" /\ mode = "FLYING"
    /\ DragX = 10 /\ DragY = -200
    /\ p.vx = 2 * Scale
    /\ Speed2 > BonusPower * BonusPower

\* C39: the currency is never negative; a purchase is made only when the
\* currency is at least the cost, takes exactly the cost and raises exactly
\* one stat by its increment, a refused purchase changes nothing, and
\* nothing but a purchase takes currency away.
C39_Currency ==
    [][/\ stats'.currency >= 0
       /\ ev'.op = "buyUpgrade" =>
             \E u \in Upgrades :
                /\ stats.currency >= u[2]
                /\ stats' = [stats EXCEPT !.currency = stats.currency - u[2]]
                /\ ps' = [ps EXCEPT ![u[1]] = ps[u[1]] + u[3]]
       /\ ev'.op = "buyRefused" =>
             UNCHANGED <<mode, p, ps, surface, camera, stats, input, stoppedFrames, rnd>>
       /\ stats'.currency < stats.currency => ev'.op = "buyUpgrade"]_vars

\* two purchases, the second for all the coins that were left, have emptied
\* the purse, and a third has been refused
C39_Witness ==
    /\ ev.op = "buyRefused" /\ mode = "GAME_OVER"
    /\ ev.buys = 2
    /\ stats.currency = 0

=============================================================================
